---- MODULE Spec2Model ----
(***************************************************************************)
(* Model of bdk's generalized signers (src/src/wallet/signer.rs): the      *)
(* SignersContainer registry, its construction from a KeyMap, the two      *)
(* sighash strategies and the two built-in signers.                         *)
(***************************************************************************)
EXTENDS Integers, Sequences, FiniteSets, TLC

VARIABLES
    container,   \* the SignersContainer under test (a BTreeMap, kept as its sorted entry list)
    registered,  \* history of the calls: the (id, ordering) -> instance map the calls describe
    keymap,      \* the KeyMap handed to SignersContainer::from
    psbt,        \* the partially signed transaction handed to signers and sighash strategies
    before,      \* value of the operated-on object when the last call started
    call,        \* the last call: its name and arguments
    ret,         \* what the last call returned
    pass         \* the signing pass over the registry: its position and its invocations so far

vars == <<container, registered, keymap, psbt, before, call, ret, pass>>

(***************************************************************************)
(* Bounds of the model.                                                    *)
(***************************************************************************)
\* width of usize in bits; orderings range over 0 .. 2^UsizeBits - 1
UsizeBits == 16
\* largest number of entries the registry is grown to
MaxEntries == 3
\* private keys and extended private keys are numbered 1 .. NumKeys
NumKeys == 2
\* largest number of secrets in a KeyMap
MaxSecrets == 3
\* largest number of inputs of a transaction
MaxInputs == 2

(***************************************************************************)
(* Option<T>                                                               *)
(***************************************************************************)
None == [some |-> FALSE]
Some(x) == [some |-> TRUE, val |-> x]

(***************************************************************************)
(* std::cmp::Ordering and the derived orders                               *)
(***************************************************************************)
cmp_int(a, b) == IF a < b THEN "Less" ELSE IF a = b THEN "Equal" ELSE "Greater"

\* Ordering::then
then(first, second) == IF first = "Equal" THEN second ELSE first

\* position of a SignerId variant in the enum declaration
VariantIndex(id) == IF id.variant = "PkHash" THEN 0 ELSE 1

\* #[derive(Ord)] on SignerId: by variant, then by the bytes of the hash
SignerId_cmp(a, b) == then(cmp_int(VariantIndex(a), VariantIndex(b)), cmp_int(a.h, b.h))

PkHash(h) == [variant |-> "PkHash", h |-> h]
Fingerprint(f) == [variant |-> "Fingerprint", h |-> f]

\* usize::MAX
usize_MAX == 2 ^ UsizeBits - 1

\* SignerOrdering::default()
SignerOrdering_default == 100

\* From<(SignerId, SignerOrdering)> for SignersContainerKey
SignersContainerKey(id, ordering) == [id |-> id, ordering |-> ordering]

\* impl Ord for SignersContainerKey, with the fields compared in the other order
cmp_id_first(a, b) == then(SignerId_cmp(a.id, b.id), cmp_int(a.ordering, b.ordering))

\* impl Ord for SignersContainerKey comparing the ordering alone
cmp_ordering_only(a, b) == cmp_int(a.ordering, b.ordering)

\* impl Ord for SignersContainerKey
cmp(a, b) == then(cmp_int(a.ordering, b.ordering), SignerId_cmp(a.id, b.id))

(***************************************************************************)
(* BTreeMap<SignersContainerKey, Arc<dyn Signer>>: the entries in the      *)
(* order of cmp. Keys are located with cmp alone, as the B-tree does.      *)
(***************************************************************************)
BTreeMap_new == << >>

BTreeMap_position(m, k) == Cardinality({i \in 1..Len(m) : cmp(m[i].key, k) = "Less"})

BTreeMap_index(m, k) == {i \in 1..Len(m) : cmp(m[i].key, k) = "Equal"}

BTreeMap_insert(m, k, v) ==
    IF BTreeMap_index(m, k) # {}
    THEN LET i == CHOOSE j \in BTreeMap_index(m, k) : TRUE
         IN  [map |-> [m EXCEPT ![i].value = v], old |-> Some(m[i].value)]
    ELSE LET n == BTreeMap_position(m, k)
         IN  [map |-> SubSeq(m, 1, n) \o <<[key |-> k, value |-> v]>> \o SubSeq(m, n + 1, Len(m)),
              old |-> None]

BTreeMap_remove(m, k) ==
    IF BTreeMap_index(m, k) # {}
    THEN LET i == CHOOSE j \in BTreeMap_index(m, k) : TRUE
         IN  [map |-> SubSeq(m, 1, i - 1) \o SubSeq(m, i + 1, Len(m)), old |-> Some(m[i].value)]
    ELSE [map |-> m, old |-> None]

\* BTreeMap::range((Included(lo), Included(hi))): the entries between the bounds, in order
BTreeMap_range(m, lo, hi) ==
    LET first == Cardinality({i \in 1..Len(m) : cmp(m[i].key, lo) = "Less"}) + 1
        last  == Cardinality({i \in 1..Len(m) : cmp(m[i].key, hi) # "Greater"})
    IN  SubSeq(m, first, last)

(***************************************************************************)
(* SignersContainer                                                        *)
(***************************************************************************)
\* SignersContainer::new
new == BTreeMap_new

\* SignersContainer::add_external: the new container and the returned previous signer
add_external(c, id, ordering, signer) ==
    BTreeMap_insert(c, SignersContainerKey(id, ordering), signer)

\* SignersContainer::remove that takes out the first entry of the id, whatever its
\* ordering
remove_first_of_id(c, id, ordering) ==
    LET found == {i \in 1..Len(c) : c[i].key.id = id}
    IN  IF found = {} THEN [map |-> c, old |-> None]
        ELSE LET i == CHOOSE j \in found : \A k \in found : j <= k
             IN  [map |-> SubSeq(c, 1, i - 1) \o SubSeq(c, i + 1, Len(c)),
                  old |-> Some(c[i].value)]

\* SignersContainer::remove
remove(c, id, ordering) == BTreeMap_remove(c, SignersContainerKey(id, ordering))

\* SignersContainer::ids
ids(c) == [i \in 1..Len(c) |-> c[i].key.id]

\* SignersContainer::signers that lists the instances from the last key to the first
signers_descending(c) == [i \in 1..Len(c) |-> c[Len(c) + 1 - i].value]

\* SignersContainer::signers
signers(c) == [i \in 1..Len(c) |-> c[i].value]

\* SignersContainer::find whose range starts at ordering 1
find_from_one(c, id) ==
    LET r == BTreeMap_range(c, SignersContainerKey(id, 1), SignersContainerKey(id, usize_MAX))
        hits == SelectSeq(r, LAMBDA e : e.key.id = id)
    IN  IF hits = << >> THEN None ELSE Some(hits[1].value)

\* SignersContainer::find
find(c, id) ==
    LET r == BTreeMap_range(c, SignersContainerKey(id, 0), SignersContainerKey(id, usize_MAX))
        hits == SelectSeq(r, LAMBDA e : e.key.id = id)
    IN  IF hits = << >> THEN None ELSE Some(hits[1].value)

(***************************************************************************)
(* Inputs of the registry operations                                       *)
(***************************************************************************)
\* two identities of one variant and one of the other; hash bytes are abstracted to numbers
SignerIds == {PkHash(1), PkHash(2), Fingerprint(1)}
Orderings == {0, SignerOrdering_default, usize_MAX}
\* signers of the tests: each Arc::new(DummySigner) is its own instance
DummySigner(p) == [kind |-> "DummySigner", ptr |-> p]
Instances == {DummySigner(1), DummySigner(2)}

NoCall == [op |-> "none"]
\* no signing pass is under way
NoPass == [status |-> "none"]
NoPsbt == [unsigned_tx |-> [input |-> << >>], inputs |-> << >>]

\* the map the calls describe, updated the way the documentation of add and remove says
Register(reg, id, ordering, signer) ==
    {e \in reg : ~(e.id = id /\ e.ordering = ordering)}
        \cup {[id |-> id, ordering |-> ordering, signer |-> signer]}
Unregister(reg, id, ordering) == {e \in reg : ~(e.id = id /\ e.ordering = ordering)}

InitRegistry ==
    /\ container = new
    /\ registered = {}
    /\ keymap = {}
    /\ psbt = NoPsbt
    /\ before = new
    /\ call = NoCall
    /\ ret = None
    /\ pass = NoPass

AddExternal ==
    \E id \in SignerIds, ordering \in Orderings, signer \in Instances :
        LET r == add_external(container, id, ordering, signer)
        IN  /\ Len(r.map) <= MaxEntries
            /\ container' = r.map
            /\ ret' = r.old
            /\ before' = container
            /\ call' = [op |-> "add_external", id |-> id, ordering |-> ordering, signer |-> signer]
            /\ registered' = Register(registered, id, ordering, signer)
            /\ UNCHANGED <<keymap, psbt, pass>>

Remove ==
    \E id \in SignerIds, ordering \in Orderings :
        LET r == remove(container, id, ordering)
        IN  /\ container' = r.map
            /\ ret' = r.old
            /\ before' = container
            /\ call' = [op |-> "remove", id |-> id, ordering |-> ordering]
            /\ registered' = Unregister(registered, id, ordering)
            /\ UNCHANGED <<keymap, psbt, pass>>

NextRegistry == AddExternal \/ Remove

SpecRegistry == InitRegistry /\ [][NextRegistry]_vars

(***************************************************************************)
(* Keys and secrets. Key material is abstracted to numbers; the library    *)
(* conversions (curve multiplication, HASH160, BIP32) are injective maps    *)
(* that do not preserve the order of their arguments.                       *)
(***************************************************************************)
\* PrivateKey::public_key: the curve point of a private key
public_key(k) == 2 * k + 1

\* PublicKey::to_pubkeyhash: HASH160 of the serialized public key
to_pubkeyhash(pk) == (pk * 7) % 11

\* ExtendedPrivKey::fingerprint: the first four bytes of the identifier of an extended key
xkey_fingerprint(x) == (x * 3) % 5

\* DescriptorSinglePriv { key, origin }
DescriptorSinglePriv(key, origin) == [key |-> key, origin |-> origin]

\* DescriptorXKey<ExtendedPrivKey> { origin, xkey, derivation_path, is_wildcard };
\* paths hold normal children
DescriptorXKey(origin, xkey, derivation_path, is_wildcard) ==
    [origin |-> origin, xkey |-> xkey, derivation_path |-> derivation_path,
     is_wildcard |-> is_wildcard]

\* DescriptorSecretKey::SinglePriv and DescriptorSecretKey::XPrv
SinglePriv(single) == [kind |-> "SinglePriv", single |-> single]
XPrv(xprv) == [kind |-> "XPrv", xprv |-> xprv]

\* XKeyUtils::root_fingerprint: the fingerprint of the origin when the key has one,
\* else the fingerprint of the extended key itself
root_fingerprint(xprv) ==
    IF xprv.origin.some THEN xprv.origin.val.fingerprint ELSE xkey_fingerprint(xprv.xkey)

\* DescriptorSecretKey::as_public: the public counterpart, origin and path kept
as_public(secret) ==
    IF secret.kind = "SinglePriv"
    THEN [kind |-> "SinglePub",
          single |-> [key |-> public_key(secret.single.key), origin |-> secret.single.origin]]
    ELSE [kind |-> "XPub",
          xpub |-> [origin |-> secret.xprv.origin,
                    xkey |-> [public_of |-> secret.xprv.xkey],
                    derivation_path |-> secret.xprv.derivation_path,
                    is_wildcard |-> secret.xprv.is_wildcard]]

\* the signers Arc::new(private_key.key) and Arc::new(xprv) of From<KeyMap>
PrivateKeySigner(key) == [kind |-> "PrivateKey", key |-> key]
XPrvSigner(xprv) == [kind |-> "XPrv", xprv |-> xprv]

\* Signer::descriptor_secret_key as the trait's default body, never overridden
descriptor_secret_key_default(signer) == None

\* Signer::descriptor_secret_key of the built-in signers and the trait's default
descriptor_secret_key(signer) ==
    IF signer.kind = "PrivateKey"
    THEN Some(SinglePriv(DescriptorSinglePriv(signer.key, None)))
    ELSE IF signer.kind = "XPrv"
    THEN Some(XPrv(signer.xprv))
    ELSE None

(***************************************************************************)
(* KeyMap = HashMap<DescriptorPublicKey, DescriptorSecretKey>: a set of     *)
(* (public, secret) pairs with one pair per public key.                    *)
(***************************************************************************)
HashMap_insert(m, public, secret) ==
    {e \in m : e.public # public} \cup {[public |-> public, secret |-> secret]}

\* one step of the loop of From<KeyMap>: the secret is wrapped and added at the default ordering
from_step(c, secret) ==
    IF secret.kind = "SinglePriv"
    THEN add_external(c, PkHash(to_pubkeyhash(public_key(secret.single.key))),
                      SignerOrdering_default, PrivateKeySigner(secret.single.key)).map
    ELSE add_external(c, Fingerprint(root_fingerprint(secret.xprv)),
                      SignerOrdering_default, XPrvSigner(secret.xprv)).map

\* the loop of From<KeyMap> over the pairs in the order the HashMap yields them
RECURSIVE from_loop(_, _)
from_loop(c, pairs) ==
    IF pairs = << >> THEN c ELSE from_loop(from_step(c, Head(pairs).secret), Tail(pairs))

\* impl From<KeyMap> for SignersContainer, given the iteration order of the map
from(pairs) == from_loop(new, pairs)

\* the collect() of as_key_map over the values in key order
RECURSIVE collect(_, _)
collect(m, values) ==
    IF values = << >> THEN m
    ELSE LET secret == descriptor_secret_key(Head(values))
         IN  collect(IF secret.some
                     THEN HashMap_insert(m, as_public(secret.val), secret.val)
                     ELSE m,
                     Tail(values))

\* SignersContainer::as_key_map
as_key_map(c) == collect({}, signers(c))

(***************************************************************************)
(* Inputs of From<KeyMap>                                                  *)
(***************************************************************************)
Keys == 1..NumKeys
\* a KeySource: (fingerprint, derivation path)
KeySource(fingerprint, path) == [fingerprint |-> fingerprint, path |-> path]
Origins == {None, Some(KeySource(4, <<0>>))}
Secrets ==
    {SinglePriv(DescriptorSinglePriv(k, o)) : k \in Keys, o \in Origins}
        \cup {XPrv(DescriptorXKey(None, x, p, TRUE)) : x \in Keys, p \in {<<0>>, <<1>>}}

\* the key maps a descriptor with secrets expands to: each secret under its public key
KeyMapOf(S) == {[public |-> as_public(secret), secret |-> secret] : secret \in S}
KeyMaps == {KeyMapOf(S) : S \in {T \in SUBSET Secrets : Cardinality(T) <= MaxSecrets}}

\* the orders in which a HashMap may yield its pairs
IterationOrders(m) ==
    {o \in [1..Cardinality(m) -> m] : \A i, j \in 1..Cardinality(m) : i # j => o[i] # o[j]}

InitKeyMap ==
    /\ keymap \in KeyMaps
    /\ container = new
    /\ registered = {}
    /\ psbt = NoPsbt
    /\ before = new
    /\ call = NoCall
    /\ ret = None
    /\ pass = NoPass

\* SignersContainer::from(keymap)
From ==
    /\ call.op = "none"
    /\ \E pairs \in IterationOrders(keymap) :
           /\ container' = from(pairs)
           /\ call' = [op |-> "from"]
           /\ before' = container
           /\ ret' = None
           /\ UNCHANGED <<registered, keymap, psbt, pass>>

\* container.as_key_map(&secp) on the container built from the key map
AsKeyMap ==
    /\ call.op = "from"
    /\ ret' = Some(as_key_map(container))
    /\ call' = [op |-> "as_key_map"]
    /\ before' = container
    /\ UNCHANGED <<container, registered, keymap, psbt, pass>>

NextKeyMap == From \/ AsKeyMap

SpecKeyMap == InitKeyMap /\ [][NextKeyMap]_vars

(***************************************************************************)
(* Scripts are byte strings; a partially signed transaction is the record  *)
(* of the fields the signers read and write.                                *)
(***************************************************************************)
\* Result<T, SignerError>, and the outcome of a call that panics
Ok(x) == [tag |-> "Ok", val |-> x]
Err(e) == [tag |-> "Err", err |-> e]
Panic == [tag |-> "Panic"]

OP_DUP == 118
OP_HASH160 == 169
OP_EQUALVERIFY == 136
OP_CHECKSIG == 172

\* script::Builder::push_slice: the push opcode for the length, then the data
push_slice(data) ==
    IF Len(data) < 76 THEN <<Len(data)>> \o data
    ELSE IF Len(data) < 256 THEN <<76, Len(data)>> \o data
    ELSE <<77, Len(data) % 256, Len(data) \div 256>> \o data

\* Script::is_v0_p2wpkh: 22 bytes, OP_0, then a push of 20 bytes
is_v0_p2wpkh(script) == Len(script) = 22 /\ script[1] = 0 /\ script[2] = 20

\* p2wpkh_script_code: script[2..] are the bytes after the first two
p2wpkh_script_code(script) ==
    <<OP_DUP, OP_HASH160>> \o push_slice(SubSeq(script, 3, Len(script)))
        \o <<OP_EQUALVERIFY, OP_CHECKSIG>>

\* SigHashType::as_u32
as_u32(sighash) ==
    CASE sighash = "All" -> 1
      [] sighash = "None" -> 2
      [] sighash = "Single" -> 3
      [] sighash = "AllPlusAnyoneCanPay" -> 129
      [] sighash = "NonePlusAnyoneCanPay" -> 130
      [] sighash = "SinglePlusAnyoneCanPay" -> 131

\* Option::unwrap_or
unwrap_or(opt, default) == IF opt.some THEN opt.val ELSE default

\* Transaction::signature_hash: the digest, kept as what it commits to
signature_hash(tx, input_index, script, sighash_u32) ==
    [alg |-> "legacy", tx |-> tx, input_index |-> input_index, script_code |-> script,
     sighash |-> sighash_u32]

\* bip143::SigHashCache::signature_hash: the digest, kept as what it commits to
bip143_signature_hash(tx, input_index, script, value, sighash) ==
    [alg |-> "bip143", tx |-> tx, input_index |-> input_index, script_code |-> script,
     value |-> value, sighash |-> as_u32(sighash)]

\* impl ComputeSighash for Legacy that asks for the previous transaction before it
\* looks at the redeem script
Legacy_sighash_utxo_first(p, input_index) ==
    IF input_index >= Len(p.inputs) THEN Err("InputIndexOutOfRange")
    ELSE IF input_index >= Len(p.unsigned_tx.input) THEN Panic
    ELSE LET psbt_input == p.inputs[input_index + 1]
             tx_input == p.unsigned_tx.input[input_index + 1]
             sighash == unwrap_or(psbt_input.sighash_type, "All")
         IN  IF ~psbt_input.non_witness_utxo.some THEN Err("MissingNonWitnessUtxo")
             ELSE IF psbt_input.redeem_script.some
             THEN Ok(<<signature_hash(p.unsigned_tx, input_index,
                                      psbt_input.redeem_script.val, as_u32(sighash)),
                       sighash>>)
             ELSE IF tx_input.previous_output.vout >= Len(psbt_input.non_witness_utxo.val.output)
             THEN Err("InvalidNonWitnessUtxo")
             ELSE Ok(<<signature_hash(
                           p.unsigned_tx, input_index,
                           psbt_input.non_witness_utxo.val.output[
                               tx_input.previous_output.vout + 1].script_pubkey,
                           as_u32(sighash)),
                       sighash>>)

\* impl ComputeSighash for Legacy
Legacy_sighash(p, input_index) ==
    IF input_index >= Len(p.inputs) THEN Err("InputIndexOutOfRange")
    ELSE IF input_index >= Len(p.unsigned_tx.input) THEN Panic
    ELSE LET psbt_input == p.inputs[input_index + 1]
             tx_input == p.unsigned_tx.input[input_index + 1]
             sighash == unwrap_or(psbt_input.sighash_type, "All")
         IN  IF psbt_input.redeem_script.some
             THEN Ok(<<signature_hash(p.unsigned_tx, input_index,
                                      psbt_input.redeem_script.val, as_u32(sighash)),
                       sighash>>)
             ELSE IF ~psbt_input.non_witness_utxo.some THEN Err("MissingNonWitnessUtxo")
             ELSE IF tx_input.previous_output.vout >= Len(psbt_input.non_witness_utxo.val.output)
             THEN Err("InvalidNonWitnessUtxo")
             ELSE Ok(<<signature_hash(
                           p.unsigned_tx, input_index,
                           psbt_input.non_witness_utxo.val.output[
                               tx_input.previous_output.vout + 1].script_pubkey,
                           as_u32(sighash)),
                       sighash>>)

\* impl ComputeSighash for Segwitv0 that looks at the redeem script before the
\* script-pubkey of the witness utxo
Segwitv0_sighash_redeem_first(p, input_index) ==
    IF input_index >= Len(p.inputs) THEN Err("InputIndexOutOfRange")
    ELSE LET psbt_input == p.inputs[input_index + 1]
             sighash == unwrap_or(psbt_input.sighash_type, "All")
         IN  IF ~psbt_input.witness_utxo.some THEN Err("MissingNonWitnessUtxo")
             ELSE LET witness_utxo == psbt_input.witness_utxo.val
                      digest(script) ==
                          Ok(<<bip143_signature_hash(p.unsigned_tx, input_index, script,
                                                     witness_utxo.value, sighash),
                               sighash>>)
                  IN  IF psbt_input.witness_script.some
                      THEN digest(psbt_input.witness_script.val)
                      ELSE IF psbt_input.redeem_script.some
                              /\ is_v0_p2wpkh(psbt_input.redeem_script.val)
                      THEN digest(p2wpkh_script_code(psbt_input.redeem_script.val))
                      ELSE IF is_v0_p2wpkh(witness_utxo.script_pubkey)
                      THEN digest(p2wpkh_script_code(witness_utxo.script_pubkey))
                      ELSE Err("MissingWitnessScript")

\* impl ComputeSighash for Segwitv0
Segwitv0_sighash(p, input_index) ==
    IF input_index >= Len(p.inputs) THEN Err("InputIndexOutOfRange")
    ELSE LET psbt_input == p.inputs[input_index + 1]
             sighash == unwrap_or(psbt_input.sighash_type, "All")
         IN  IF ~psbt_input.witness_utxo.some THEN Err("MissingNonWitnessUtxo")
             ELSE LET witness_utxo == psbt_input.witness_utxo.val
                      digest(script) ==
                          Ok(<<bip143_signature_hash(p.unsigned_tx, input_index, script,
                                                     witness_utxo.value, sighash),
                               sighash>>)
                  IN  IF psbt_input.witness_script.some
                      THEN digest(psbt_input.witness_script.val)
                      ELSE IF is_v0_p2wpkh(witness_utxo.script_pubkey)
                      THEN digest(p2wpkh_script_code(witness_utxo.script_pubkey))
                      ELSE IF psbt_input.redeem_script.some
                              /\ is_v0_p2wpkh(psbt_input.redeem_script.val)
                      THEN digest(p2wpkh_script_code(psbt_input.redeem_script.val))
                      ELSE Err("MissingWitnessScript")

(***************************************************************************)
(* The built-in signers. A sign call yields the psbt it leaves behind and  *)
(* its result.                                                              *)
(***************************************************************************)
\* Secp256k1::sign: the deterministic ECDSA signature of a digest under a key
secp_sign(msg, key) == [signed_by |-> key, msg |-> msg]

\* Signature::serialize_der: the DER bytes, kept as one element
serialize_der(signature) == <<signature>>

\* an insert that starts a new map and so drops the entries already there
Map_insert_alone(m, k, v) == [x \in {k} |-> v]

\* BTreeMap::insert on partial_sigs and hd_keypaths
Map_insert(m, k, v) == [x \in DOMAIN m \cup {k} |-> IF x = k THEN v ELSE m[x]]

\* the signature bytes with the sighash byte fixed to SIGHASH_ALL
final_signature_sighash_all(signature, sighash) == Append(serialize_der(signature), 1)

\* final_signature: the DER bytes followed by sighash.as_u32() as u8
final_signature(signature, sighash) ==
    Append(serialize_der(signature), as_u32(sighash) % 256)

\* the signing step of PrivateKey::sign: the digest is signed and the signature recorded
\* under the public key on input i
PrivateKey_sign_digest(key, p, i, computed) ==
    LET hash == computed.val[1]
        sighash == computed.val[2]
        signature == secp_sign(hash, key)
    IN  [psbt |-> [p EXCEPT !.inputs[i + 1].partial_sigs =
                       Map_insert(@, public_key(key), final_signature(signature, sighash))],
         result |-> Ok(<< >>)]

\* impl Signer for PrivateKey :: sign, past the checks of the index, that tries the
\* other strategy when the one selected by the witness utxo fails
PrivateKey_sign_input_fallback(key, p, i) ==
    LET pubkey == public_key(key)
        segwit == Segwitv0_sighash(p, i)
        legacy == Legacy_sighash(p, i)
        first == IF p.inputs[i + 1].witness_utxo.some THEN segwit ELSE legacy
        second == IF p.inputs[i + 1].witness_utxo.some THEN legacy ELSE segwit
    IN  IF pubkey \in DOMAIN p.inputs[i + 1].partial_sigs
        THEN [psbt |-> p, result |-> Ok(<< >>)]
        ELSE IF first.tag = "Ok" THEN PrivateKey_sign_digest(key, p, i, first)
        ELSE IF second.tag = "Ok" THEN PrivateKey_sign_digest(key, p, i, second)
        ELSE [psbt |-> p, result |-> first]

\* impl Signer for PrivateKey :: sign, past the checks of the index, that takes a
\* failure of the strategy as nothing to sign
PrivateKey_sign_input_swallow(key, p, i) ==
    LET pubkey == public_key(key)
    IN  IF pubkey \in DOMAIN p.inputs[i + 1].partial_sigs
        THEN [psbt |-> p, result |-> Ok(<< >>)]
        ELSE LET computed == IF p.inputs[i + 1].witness_utxo.some
                             THEN Segwitv0_sighash(p, i)
                             ELSE Legacy_sighash(p, i)
             IN  IF computed.tag # "Ok" THEN [psbt |-> p, result |-> Ok(<< >>)]
                 ELSE PrivateKey_sign_digest(key, p, i, computed)

\* impl Signer for PrivateKey :: sign, past the checks of the index: input i is signed
\* unless it already carries a partial signature of this key
PrivateKey_sign_input(key, p, i) ==
    LET pubkey == public_key(key)
    IN  IF pubkey \in DOMAIN p.inputs[i + 1].partial_sigs
        THEN [psbt |-> p, result |-> Ok(<< >>)]
        ELSE LET computed == IF p.inputs[i + 1].witness_utxo.some
                             THEN Segwitv0_sighash(p, i)
                             ELSE Legacy_sighash(p, i)
             IN  IF computed.tag # "Ok" THEN [psbt |-> p, result |-> computed]
                 ELSE PrivateKey_sign_digest(key, p, i, computed)

\* impl Signer for PrivateKey :: sign that takes an index past the inputs as nothing to do
PrivateKey_sign_out_of_range_ok(key, p, input_index) ==
    IF ~input_index.some THEN [psbt |-> p, result |-> Panic]
    ELSE IF input_index.val >= Len(p.inputs) THEN [psbt |-> p, result |-> Ok(<< >>)]
    ELSE PrivateKey_sign_input(key, p, input_index.val)

\* impl Signer for PrivateKey :: sign
PrivateKey_sign(key, p, input_index) ==
    IF ~input_index.some THEN [psbt |-> p, result |-> Panic]
    ELSE IF input_index.val >= Len(p.inputs)
    THEN [psbt |-> p, result |-> Err("InputIndexOutOfRange")]
    ELSE PrivateKey_sign_input(key, p, input_index.val)

\* ExtendedPrivKey::derive_priv: one child key per step of the path
RECURSIVE derive_priv(_, _)
derive_priv(xkey, path) ==
    IF path = << >> THEN xkey ELSE derive_priv(xkey * 10 + Head(path) + 1, Tail(path))

\* DescriptorXKey::matches: the key source names this key's root and a path that is
\* this key's path, followed by one more step when the key is a wildcard
matches(xprv, keysource) ==
    LET compare_fingerprint == IF xprv.origin.some THEN xprv.origin.val.fingerprint
                               ELSE xkey_fingerprint(xprv.xkey)
        compare_path == IF xprv.origin.some
                        THEN xprv.origin.val.path \o xprv.derivation_path
                        ELSE xprv.derivation_path
        path == keysource.path
        path_excluding_wildcard == IF xprv.is_wildcard /\ Len(path) > 0
                                   THEN SubSeq(path, 1, Len(path) - 1)
                                   ELSE path
    IN  IF compare_fingerprint = keysource.fingerprint /\ compare_path = path_excluding_wildcard
        THEN Some(path_excluding_wildcard)
        ELSE None

\* the records of hd_keypaths this key matches, by their public keys
matching_keypaths(xprv, hd_keypaths) ==
    {pk \in DOMAIN hd_keypaths : matches(xprv, hd_keypaths[pk]).some}

\* the first item of the filter_map over hd_keypaths: the map iterates in key order
first_match(xprv, hd_keypaths) ==
    CHOOSE pk \in matching_keypaths(xprv, hd_keypaths) :
        \A q \in matching_keypaths(xprv, hd_keypaths) : pk <= q

\* the end of DescriptorXKey::sign that signs with the derived key whatever public key
\* the record carries
DescriptorXKey_sign_found_unchecked(xprv, p, i, public_key_found) ==
    PrivateKey_sign(derive_priv(xprv.xkey, p.inputs[i + 1].hd_keypaths[public_key_found].path),
                    p, Some(i))

\* the end of DescriptorXKey::sign, once a record is found: the child key is derived
\* along the full path of the record and checked against the record's public key
DescriptorXKey_sign_found(xprv, p, i, public_key_found) ==
    LET deriv_path == p.inputs[i + 1].hd_keypaths[public_key_found].path
        derived_key == derive_priv(xprv.xkey, deriv_path)
    IN  IF public_key(derived_key) # public_key_found
        THEN [psbt |-> p, result |-> Err("InvalidKey")]
        ELSE PrivateKey_sign(derived_key, p, Some(i))

\* impl Signer for DescriptorXKey<ExtendedPrivKey> :: sign that reports an input without
\* a record of this key as an error
DescriptorXKey_sign_missing_keypath(xprv, p, input_index) ==
    IF ~input_index.some THEN [psbt |-> p, result |-> Panic]
    ELSE IF input_index.val >= Len(p.inputs)
    THEN [psbt |-> p, result |-> Err("InputIndexOutOfRange")]
    ELSE LET i == input_index.val
         IN  IF matching_keypaths(xprv, p.inputs[i + 1].hd_keypaths) = {}
             THEN [psbt |-> p, result |-> Err("MissingHDKeypath")]
             ELSE DescriptorXKey_sign_found(xprv, p, i,
                                            first_match(xprv, p.inputs[i + 1].hd_keypaths))

\* impl Signer for DescriptorXKey<ExtendedPrivKey> :: sign
DescriptorXKey_sign(xprv, p, input_index) ==
    IF ~input_index.some THEN [psbt |-> p, result |-> Panic]
    ELSE IF input_index.val >= Len(p.inputs)
    THEN [psbt |-> p, result |-> Err("InputIndexOutOfRange")]
    ELSE LET i == input_index.val
         IN  IF matching_keypaths(xprv, p.inputs[i + 1].hd_keypaths) = {}
             THEN [psbt |-> p, result |-> Ok(<< >>)]
             ELSE DescriptorXKey_sign_found(xprv, p, i,
                                            first_match(xprv, p.inputs[i + 1].hd_keypaths))

(***************************************************************************)
(* Inputs of the signers and sighash strategies                            *)
(***************************************************************************)
\* a 20-byte hash and the script shapes built on it
Hash20(b) == [i \in 1..20 |-> b]
P2WPKH(h) == <<0, 20>> \o h
P2SH(h) == <<169, 20>> \o h \o <<135>>
P2PKH(h) == <<118, 169, 20>> \o h \o <<136, 172>>
\* a version 1 witness program of 20 bytes: 22 bytes long, but not P2WPKH
V1Program(h) == <<81, 20>> \o h
\* a one-of-one multisig script
WitnessScript == <<81, 1, 7, 81, 174>>

TxOut(value, script_pubkey) == [value |-> value, script_pubkey |-> script_pubkey]
PrevTx == [output |-> <<TxOut(100000, P2PKH(Hash20(3))), TxOut(50000, P2SH(Hash20(4)))>>]

\* the extended key signer of the model, the key source that matches it, and the
\* single private keys: an unrelated key and the child the key source leads to
TheXPrv == DescriptorXKey(None, 1, <<0>>, TRUE)
MatchingSource == KeySource(xkey_fingerprint(1), <<0, 5>>)
ChildKey == derive_priv(1, <<0, 5>>)
LoneKey == 7
SigningKeys == {LoneKey, ChildKey}

\* key sources of another root, and of this root along another path
ForeignSource == KeySource(xkey_fingerprint(2), <<0, 5>>)
OtherPathSource == KeySource(xkey_fingerprint(1), <<1, 5>>)

\* the hd_keypaths of an input: none; the child's key under its source; another key
\* under that source; records of another root and path only; and a matching record
\* after one whose public key is not the derived one
NoMap == << >>
HdKeypaths ==
    { NoMap,
      Map_insert(NoMap, public_key(ChildKey), MatchingSource),
      Map_insert(NoMap, public_key(LoneKey), MatchingSource),
      Map_insert(Map_insert(NoMap, public_key(ChildKey), ForeignSource),
                 public_key(LoneKey), OtherPathSource),
      Map_insert(Map_insert(NoMap, public_key(LoneKey), MatchingSource),
                 public_key(ChildKey), MatchingSource) }

\* a partial signature an input arrives with: made over another digest and under
\* another sighash type than the ones the input declares
ForeignSignature(key) ==
    final_signature(secp_sign(signature_hash([input |-> << >>], 0, << >>, as_u32("Single")),
                              key),
                    "Single")

\* the partial_sigs an input arrives with: none, or one under the public key of a signer
PartialSigs ==
    {NoMap} \cup {Map_insert(NoMap, public_key(k), ForeignSignature(k)) : k \in SigningKeys}

\* psbt::Input: the fields the signers and sighash strategies read and write
psbt_Input(prev_tx, prev_out, redeem, witness, sighash, keypaths, sigs) ==
    [non_witness_utxo |-> prev_tx, witness_utxo |-> prev_out,
     redeem_script |-> redeem, witness_script |-> witness,
     sighash_type |-> sighash, hd_keypaths |-> keypaths, partial_sigs |-> sigs]

\* an input of the unsigned transaction with the record the psbt keeps for it
InputShapes ==
    { [vout |-> vout, input |-> psbt_Input(nwu, wu, rs, ws, st, hd, ps)] :
        vout \in {0, 1, 2},
        nwu \in {None, Some(PrevTx)},
        wu \in {None, Some(TxOut(100000, P2WPKH(Hash20(1)))),
                Some(TxOut(100000, P2SH(Hash20(4)))),
                Some(TxOut(100000, V1Program(Hash20(1))))},
        rs \in {None, Some(P2WPKH(Hash20(2))), Some(P2PKH(Hash20(2)))},
        ws \in {None, Some(WitnessScript)},
        st \in {None, Some("SinglePlusAnyoneCanPay")},
        hd \in HdKeypaths,
        ps \in PartialSigs }

\* the shapes the inputs of a transaction of several inputs are drawn from: a P2WPKH
\* input the extended key applies to, a legacy input with its previous transaction,
\* an input with no previous output recorded, and a legacy input that arrives with a
\* partial signature
PlainShapes ==
    { [vout |-> 0,
       input |-> psbt_Input(None, Some(TxOut(100000, P2WPKH(Hash20(1)))), None, None, None,
                            Map_insert(NoMap, public_key(ChildKey), MatchingSource), NoMap)],
      [vout |-> 0, input |-> psbt_Input(Some(PrevTx), None, None, None, None, NoMap, NoMap)],
      [vout |-> 0, input |-> psbt_Input(None, None, None, None, None, NoMap, NoMap)],
      [vout |-> 1,
       input |-> psbt_Input(Some(PrevTx), None, None, None, None, NoMap,
                            Map_insert(NoMap, public_key(LoneKey), ForeignSignature(LoneKey)))] }

\* the psbt of a transaction with the given inputs: one record per input
PsbtOf(shapes) ==
    [unsigned_tx |-> [input |-> [i \in 1..Len(shapes) |->
                                    [previous_output |-> [vout |-> shapes[i].vout]]]],
     inputs |-> [i \in 1..Len(shapes) |-> shapes[i].input]]

\* psbts of up to MaxInputs inputs: a single input takes every shape, the inputs of a
\* longer transaction the plain ones
Psbts ==
    {PsbtOf(<< >>)}
        \cup {PsbtOf(<<shape>>) : shape \in InputShapes}
        \cup UNION {{PsbtOf(shapes) : shapes \in [1..n -> PlainShapes]} : n \in 2..MaxInputs}

InputIndexes == {None} \cup {Some(i) : i \in 0..MaxInputs}

InitPsbt ==
    /\ psbt \in Psbts
    /\ container = new
    /\ registered = {}
    /\ keymap = {}
    /\ before = psbt
    /\ call = NoCall
    /\ ret = None
    /\ pass = NoPass

\* Legacy::sighash(&psbt, input_index)
LegacySighash ==
    \E i \in 0..MaxInputs :
        /\ ret' = Legacy_sighash(psbt, i)
        /\ call' = [op |-> "Legacy::sighash", input_index |-> Some(i)]
        /\ before' = psbt
        /\ UNCHANGED <<container, registered, keymap, psbt, pass>>

\* Segwitv0::sighash(&psbt, input_index)
SegwitSighash ==
    \E i \in 0..MaxInputs :
        /\ ret' = Segwitv0_sighash(psbt, i)
        /\ call' = [op |-> "Segwitv0::sighash", input_index |-> Some(i)]
        /\ before' = psbt
        /\ UNCHANGED <<container, registered, keymap, psbt, pass>>

\* private_key.sign(&mut psbt, input_index, &secp)
PrivateKeySign ==
    \E key \in SigningKeys, i \in InputIndexes :
        LET r == PrivateKey_sign(key, psbt, i)
        IN  /\ psbt' = r.psbt
            /\ ret' = r.result
            /\ call' = [op |-> "PrivateKey::sign", key |-> key, input_index |-> i]
            /\ before' = psbt
            /\ UNCHANGED <<container, registered, keymap, pass>>

\* xprv.sign(&mut psbt, input_index, &secp)
XPrvSign ==
    \E i \in InputIndexes :
        LET r == DescriptorXKey_sign(TheXPrv, psbt, i)
        IN  /\ psbt' = r.psbt
            /\ ret' = r.result
            /\ call' = [op |-> "DescriptorXKey::sign", input_index |-> i]
            /\ before' = psbt
            /\ UNCHANGED <<container, registered, keymap, pass>>

NextPsbt == LegacySighash \/ SegwitSighash \/ PrivateKeySign \/ XPrvSign

SpecPsbt == InitPsbt /\ [][NextPsbt]_vars

(***************************************************************************)
(* The signing pass over a registry: every signer of signers(), in that    *)
(* order, is handed the transaction, once when it signs the whole          *)
(* transaction and else once per input; the first error ends the pass.     *)
(***************************************************************************)
\* Signer::sign_whole_tx of the implementations: false for both built-in signers, true
\* for the signer of the tests
sign_whole_tx(signer) == signer.kind = "DummySigner"

\* Signer::sign through the trait object
Signer_sign(signer, p, input_index) ==
    IF signer.kind = "PrivateKey" THEN PrivateKey_sign(signer.key, p, input_index)
    ELSE IF signer.kind = "XPrv" THEN DescriptorXKey_sign(signer.xprv, p, input_index)
    ELSE [psbt |-> p, result |-> Ok(<< >>)]

\* the signers a pass may meet, each with the identity it is registered under
PassSigners ==
    { [id |-> PkHash(to_pubkeyhash(public_key(LoneKey))), signer |-> PrivateKeySigner(LoneKey)],
      [id |-> PkHash(to_pubkeyhash(public_key(ChildKey))), signer |-> PrivateKeySigner(ChildKey)],
      [id |-> Fingerprint(root_fingerprint(TheXPrv)), signer |-> XPrvSigner(TheXPrv)],
      [id |-> Fingerprint(4), signer |-> DummySigner(1)] }

\* the registrations of a pass: some of the signers, each at one ordering
Registrations ==
    UNION { { {[id |-> e.id, ordering |-> f[e], signer |-> e.signer] : e \in S} :
                f \in [S -> Orderings] } :
            S \in {T \in SUBSET PassSigners : Cardinality(T) <= MaxEntries} }

\* the container after add_external of every registration
RECURSIVE add_all(_, _)
add_all(c, regs) ==
    IF regs = {} THEN c
    ELSE LET e == CHOOSE x \in regs : TRUE
         IN  add_all(add_external(c, e.id, e.ordering, e.signer).map, regs \ {e})

\* the transactions handed to a pass: one to MaxInputs inputs of the plain shapes
PassPsbts == {PsbtOf(s) : s \in UNION {[1..n -> PlainShapes] : n \in 1..MaxInputs}}

\* the pass is about to start
InitPass ==
    /\ registered \in Registrations
    /\ container = add_all(new, registered)
    /\ psbt \in PassPsbts
    /\ keymap = {}
    /\ before = psbt
    /\ call = NoCall
    /\ ret = None
    /\ pass = [signer |-> 1, input |-> 0,
               status |-> IF registered = {} THEN "done" ELSE "running",
               log |-> << >>]

\* where the pass goes after an invocation that succeeded: the next input of the same
\* signer, or the next signer
next_position(n, i, whole, inputs) ==
    IF whole \/ i + 1 >= inputs
    THEN [signer |-> n + 1, input |-> 0]
    ELSE [signer |-> n, input |-> i + 1]

\* one invocation of the pass: the signer at the position signs, an error ends the pass
Invoke(input_index) ==
    LET signer == signers(container)[pass.signer]
        r == Signer_sign(signer, psbt, input_index)
        nxt == next_position(pass.signer, pass.input, ~input_index.some, Len(psbt.inputs))
    IN  /\ psbt' = r.psbt
        /\ ret' = r.result
        /\ before' = psbt
        /\ call' = [op |-> "pass", signer |-> signer, input_index |-> input_index]
        /\ pass' = [signer |-> nxt.signer, input |-> nxt.input,
                    status |-> IF r.result.tag # "Ok" THEN "aborted"
                               ELSE IF nxt.signer > Len(signers(container)) THEN "done"
                               ELSE "running",
                    log |-> Append(pass.log, [signer |-> signer, input_index |-> input_index,
                                              saw |-> psbt, left |-> r.psbt])]
        /\ UNCHANGED <<container, registered, keymap>>

\* a signer of the whole transaction is invoked once, with no input index
SignWholeTx ==
    /\ pass.status = "running"
    /\ sign_whole_tx(signers(container)[pass.signer])
    /\ Invoke(None)

\* a signer of single inputs is invoked on the next input
SignInput ==
    /\ pass.status = "running"
    /\ ~sign_whole_tx(signers(container)[pass.signer])
    /\ Invoke(Some(pass.input))

NextPass == SignWholeTx \/ SignInput

SpecPass == InitPass /\ [][NextPass]_vars

(***************************************************************************)
(* Claims about the registry (SpecRegistry)                                *)
(***************************************************************************)
\* the documented order of two identities, stated on their parts
IdBefore(a, b) ==
    \/ a.variant = "PkHash" /\ b.variant = "Fingerprint"
    \/ a.variant = b.variant /\ a.h < b.h

\* the documented order of two registered entries: by ordering, then by identity
ListedBefore(d, e) ==
    \/ d.ordering < e.ordering
    \/ d.ordering = e.ordering /\ IdBefore(d.id, e.id)

\* place of a registered entry in the ascending (ordering, identity) listing
Place(e) == 1 + Cardinality({d \in registered : ListedBefore(d, e)})

\* C1: after any sequence of add_external and remove calls, signers() lists exactly
\* one instance per registered (id, ordering) key, in non-decreasing ordering and,
\* among equal orderings, in non-decreasing identity.
C1_SignersSortedOnePerKey ==
    /\ Len(signers(container)) = Cardinality(registered)
    /\ \A e \in registered : signers(container)[Place(e)] = e.signer
    /\ \A i, j \in 1..Len(container) :
           i < j => \/ container[i].key.ordering < container[j].key.ordering
                    \/ /\ container[i].key.ordering = container[j].key.ordering
                       /\ IdBefore(container[i].key.id, container[j].key.id)

\* C1 witness: three entries, two of them sharing an ordering, the last call an
\* add_external whose entry was listed before the two older ones
C1_Witness ==
    /\ Len(container) = 3
    /\ call.op = "add_external"
    /\ container[1].key = SignersContainerKey(call.id, call.ordering)
    /\ Len(before) = 2
    /\ container[2].key.ordering = container[3].key.ordering
    /\ container[1].value # container[2].value

\* the entries registered under an identity
RegisteredUnder(id) == {e \in registered : e.id = id}

\* C2: find(id) is the instance registered under id with the smallest ordering among
\* all entries of that identity, and None exactly when no entry has that identity.
C2_FindLowestOrdering ==
    \A id \in SignerIds \cup {Fingerprint(2)} :
        IF RegisteredUnder(id) = {}
        THEN find(container, id) = None
        ELSE \E e \in RegisteredUnder(id) :
                 /\ \A d \in RegisteredUnder(id) : e.ordering <= d.ordering
                 /\ find(container, id) = Some(e.signer)

\* C2 witness: one identity registered at orderings 0 and usize::MAX with different
\* instances, another identity in between, and find returning the instance at 0
C2_Witness ==
    \E id \in SignerIds, lo, hi \in registered :
        /\ lo.id = id /\ hi.id = id
        /\ lo.ordering = 0 /\ hi.ordering = usize_MAX
        /\ lo.signer # hi.signer
        /\ \E o \in registered : o.id # id /\ o.ordering = SignerOrdering_default
        /\ find(container, id) = Some(lo.signer)

\* the (id, ordering, instance) triples a container holds
Entries(c) == {<<c[i].key.id, c[i].key.ordering, c[i].value>> : i \in 1..Len(c)}

\* C3: add_external(id, ordering, signer) returns and replaces the instance registered
\* at exactly that pair when there is one; otherwise it returns None, adds one entry
\* and replaces nothing.
C3_AddReplacesExactPairOnly ==
    call.op = "add_external" =>
        LET same == {i \in 1..Len(before) : /\ before[i].key.id = call.id
                                            /\ before[i].key.ordering = call.ordering}
            added == <<call.id, call.ordering, call.signer>>
        IN  IF same # {}
            THEN \E i \in same :
                     /\ ret = Some(before[i].value)
                     /\ Len(container) = Len(before)
                     /\ Entries(container) =
                            (Entries(before) \ {<<call.id, call.ordering, before[i].value>>})
                                \cup {added}
            ELSE /\ ret = None
                 /\ Len(container) = Len(before) + 1
                 /\ Entries(container) = Entries(before) \cup {added}

\* C3 witness: an add that found no entry at its pair although the same identity was
\* registered at another ordering and another identity at the same ordering
C3_Witness ==
    /\ call.op = "add_external"
    /\ ret = None
    /\ \E i \in 1..Len(before) : before[i].key.id = call.id
    /\ \E i \in 1..Len(before) : before[i].key.ordering = call.ordering

\* C15: remove(id, ordering) removes and returns the instance registered at exactly
\* that pair when there is one, and returns None leaving the registry unchanged when
\* there is none; in both cases every other entry, of the same id at other orderings
\* and of other ids at the same ordering, stays as it was.
C15_RemoveExactPairOnly ==
    call.op = "remove" =>
        LET same == {i \in 1..Len(before) : /\ before[i].key.id = call.id
                                            /\ before[i].key.ordering = call.ordering}
        IN  IF same # {}
            THEN \E i \in same :
                     /\ ret = Some(before[i].value)
                     /\ Len(container) = Len(before) - 1
                     /\ Entries(container) =
                            Entries(before) \ {<<call.id, call.ordering, before[i].value>>}
            ELSE /\ ret = None
                 /\ container = before

\* C15 witness: a remove that took out the entry at its pair while the same identity was
\* registered at another ordering and another identity at the same ordering, and both
\* of these are still there
C15_Witness ==
    /\ call.op = "remove"
    /\ ret # None
    /\ \E i \in 1..Len(container) : /\ container[i].key.id = call.id
                                   /\ container[i].key.ordering # call.ordering
    /\ \E i \in 1..Len(container) : /\ container[i].key.id # call.id
                                   /\ container[i].key.ordering = call.ordering
    /\ Len(container) = Len(before) - 1

(***************************************************************************)
(* Claims about From<KeyMap> and as_key_map (SpecKeyMap)                   *)
(***************************************************************************)
\* the identity From<KeyMap> registers a secret under
IdentityOf(secret) ==
    IF secret.kind = "SinglePriv"
    THEN PkHash(to_pubkeyhash(public_key(secret.single.key)))
    ELSE Fingerprint(root_fingerprint(secret.xprv))

\* C4: for every KeyMap, SignersContainer::from(keymap) has as many ids() and
\* signers() as the key map has secrets: none is overwritten at the default ordering.
C4_FromKeepsEverySecret ==
    call.op = "from" =>
        /\ Len(ids(container)) = Cardinality(keymap)
        /\ Len(signers(container)) = Cardinality(keymap)

PairwiseDistinctIdentities(m) ==
    \A a, b \in m : a # b => IdentityOf(a.secret) # IdentityOf(b.secret)

\* C5 as stated: for every KeyMap of single-key and extended-key secrets with pairwise
\* distinct signer identities, as_key_map of the container built from it is that map.
C5_RoundTripAsStated ==
    (call.op = "as_key_map" /\ PairwiseDistinctIdentities(keymap)) => ret = Some(keymap)

NoSingleKeyOrigin(m) ==
    \A a \in m : a.secret.kind = "SinglePriv" => a.secret.single.origin = None

\* C5 amended: for every KeyMap with pairwise distinct signer identities whose keys are
\* the public keys of their secrets and whose single-key secrets carry no derivation
\* origin, as_key_map of the container built from it is that map.
C5_RoundTripWithoutSingleKeyOrigin ==
    (/\ call.op = "as_key_map"
     /\ PairwiseDistinctIdentities(keymap)
     /\ NoSingleKeyOrigin(keymap)
     /\ \A a \in keymap : a.public = as_public(a.secret))
        => ret = Some(keymap)

\* C5 witness: a map of one single-key secret without origin and two extended-key
\* secrets of different roots came back whole
C5_Witness ==
    /\ call.op = "as_key_map"
    /\ Cardinality(keymap) = 3
    /\ PairwiseDistinctIdentities(keymap)
    /\ NoSingleKeyOrigin(keymap)
    /\ \E a \in keymap : a.secret.kind = "SinglePriv"
    /\ Cardinality({a \in keymap : a.secret.kind = "XPrv"}) = 2
    /\ ret = Some(keymap)

(***************************************************************************)
(* Claims about the signers and sighash strategies (SpecPsbt)              *)
(***************************************************************************)
\* the byte each sighash type is serialized as
SighashByte ==
    [All |-> 1, None |-> 2, Single |-> 3, AllPlusAnyoneCanPay |-> 129,
     NonePlusAnyoneCanPay |-> 130, SinglePlusAnyoneCanPay |-> 131]

\* the last call was sign(psbt, Some(i)) of a single private key with i an input
SignedInRange ==
    /\ call.op = "PrivateKey::sign"
    /\ call.input_index.some
    /\ call.input_index.val < Len(before.inputs)

\* C6 as stated: after a successful sign(psbt, Some(i)) of a single private key, input i
\* holds a partial signature under the signer's public key whose last byte is the input's
\* sighash type (0x01 when none is declared), and a further sign(psbt, Some(i)) by the
\* same signer returns Ok and leaves the psbt unchanged.
C6_SignIdempotent ==
    (SignedInRange /\ ret.tag = "Ok") =>
        LET input == psbt.inputs[call.input_index.val + 1]
            pubkey == public_key(call.key)
        IN  /\ pubkey \in DOMAIN input.partial_sigs
            /\ input.partial_sigs[pubkey][Len(input.partial_sigs[pubkey])] =
                   (IF input.sighash_type.some THEN SighashByte[input.sighash_type.val] ELSE 1)
            /\ PrivateKey_sign(call.key, psbt, call.input_index) =
                   [psbt |-> psbt, result |-> Ok(<< >>)]

\* C6 amended: after a successful sign(psbt, Some(i)) of a single private key, input i
\* holds a partial signature under the signer's public key; when the input had none
\* under that key before the call, its last byte is the input's sighash type (0x01 when
\* none is declared); when it had one, the psbt is the one before the call, whatever
\* that signature ends with; and a further sign(psbt, Some(i)) by the same signer
\* returns Ok and leaves the psbt unchanged.
C6_SignIdempotentKeepingEntry ==
    (SignedInRange /\ ret.tag = "Ok") =>
        LET input == psbt.inputs[call.input_index.val + 1]
            old == before.inputs[call.input_index.val + 1].partial_sigs
            pubkey == public_key(call.key)
        IN  /\ pubkey \in DOMAIN input.partial_sigs
            /\ pubkey \notin DOMAIN old =>
                   input.partial_sigs[pubkey][Len(input.partial_sigs[pubkey])] =
                       (IF input.sighash_type.some
                        THEN SighashByte[input.sighash_type.val] ELSE 1)
            /\ pubkey \in DOMAIN old => psbt = before
            /\ PrivateKey_sign(call.key, psbt, call.input_index) =
                   [psbt |-> psbt, result |-> Ok(<< >>)]

\* C6 witness: a sign that wrote its partial signature, ending with the sighash type
\* the input declares, next to the one of the other key the input arrived with
C6_Witness ==
    /\ SignedInRange
    /\ ret.tag = "Ok"
    /\ Len(before.unsigned_tx.input) = 1
    /\ psbt.inputs[1].sighash_type = Some("SinglePlusAnyoneCanPay")
    /\ DOMAIN before.inputs[1].partial_sigs = {public_key(k) : k \in SigningKeys \ {call.key}}
    /\ DOMAIN psbt.inputs[1].partial_sigs = {public_key(k) : k \in SigningKeys}
    /\ psbt.inputs[1].partial_sigs[public_key(call.key)][2] = 131
    /\ \E k \in SigningKeys \ {call.key} :
           psbt.inputs[1].partial_sigs[public_key(k)] = ForeignSignature(k)

\* the last call was given an index at or past the input count of the transaction
IndexPastInputs ==
    /\ call.op \in {"Legacy::sighash", "Segwitv0::sighash", "PrivateKey::sign"}
    /\ call.input_index.some
    /\ call.input_index.val >= Len(before.unsigned_tx.input)

\* C7: for every input index at or past the transaction's input count, Legacy::sighash,
\* Segwitv0::sighash and the single private key's sign return InputIndexOutOfRange and
\* leave the psbt unchanged.
C7_IndexOutOfRange ==
    IndexPastInputs => (ret = Err("InputIndexOutOfRange") /\ psbt = before)

\* C7 witness: sign at index 2 of a two-input transaction that already carries a
\* partial signature
C7_Witness ==
    /\ IndexPastInputs
    /\ call.op = "PrivateKey::sign"
    /\ call.input_index.val = 2
    /\ Len(psbt.inputs) = 2
    /\ \E i \in 1..2 : psbt.inputs[i].partial_sigs # NoMap
    /\ ret = Err("InputIndexOutOfRange")

\* C8: a built-in per-input signer whose sign is called without an input index returns
\* the error InputIndexOutOfRange.
C8_AbsentIndexIsOutOfRange ==
    (/\ call.op \in {"PrivateKey::sign", "DescriptorXKey::sign"}
     /\ ~call.input_index.some)
        => ret = Err("InputIndexOutOfRange")

\* the canonical P2WPKH script-code of a 22-byte witness program
CanonicalScriptCode(script) == <<118, 169, 20>> \o SubSeq(script, 3, 22) \o <<136, 172>>
IsCanonicalP2WPKH(script) == Len(script) = 22 /\ script[1] = 0 /\ script[2] = 20

\* the last call was Segwitv0::sighash on an input of the transaction
SegwitInRange ==
    /\ call.op = "Segwitv0::sighash"
    /\ call.input_index.val < Len(before.inputs)

\* C9: on an in-range input with a witness_utxo, Segwitv0::sighash takes as script-code
\* the witness script if present; else the canonical P2WPKH script-code of the
\* witness_utxo script-pubkey if that is canonical P2WPKH; else the one of the redeem
\* script if it is present and canonical P2WPKH; else it fails with MissingWitnessScript.
C9_SegwitScriptCodePriority ==
    (SegwitInRange /\ before.inputs[call.input_index.val + 1].witness_utxo.some) =>
        LET input == before.inputs[call.input_index.val + 1]
            script_pubkey == input.witness_utxo.val.script_pubkey
            Uses(script) == ret.tag = "Ok" /\ ret.val[1].script_code = script
        IN  IF input.witness_script.some THEN Uses(input.witness_script.val)
            ELSE IF IsCanonicalP2WPKH(script_pubkey)
            THEN Uses(CanonicalScriptCode(script_pubkey))
            ELSE IF input.redeem_script.some /\ IsCanonicalP2WPKH(input.redeem_script.val)
            THEN Uses(CanonicalScriptCode(input.redeem_script.val))
            ELSE ret = Err("MissingWitnessScript")

\* C9 witness: no witness script, a script-pubkey and a redeem script that are both
\* canonical P2WPKH of different hashes, and the script-code built from the script-pubkey
C9_Witness ==
    /\ SegwitInRange
    /\ before.inputs[call.input_index.val + 1].witness_utxo.some
    /\ ~before.inputs[call.input_index.val + 1].witness_script.some
    /\ before.inputs[call.input_index.val + 1].witness_utxo.val.script_pubkey = P2WPKH(Hash20(1))
    /\ before.inputs[call.input_index.val + 1].redeem_script = Some(P2WPKH(Hash20(2)))
    /\ ret.tag = "Ok"
    /\ ret.val[1].script_code = <<118, 169, 20>> \o Hash20(1) \o <<136, 172>>

\* C10: Segwitv0::sighash on an in-range input without a witness_utxo fails with
\* MissingWitnessUtxo.
C10_SegwitMissingWitnessUtxo ==
    (SegwitInRange /\ ~before.inputs[call.input_index.val + 1].witness_utxo.some)
        => ret = Err("MissingWitnessUtxo")

\* the last call was Legacy::sighash on an input of the transaction
LegacyInRange ==
    /\ call.op = "Legacy::sighash"
    /\ call.input_index.val < Len(before.inputs)

\* C11: on an in-range input, Legacy::sighash takes as script-code the redeem script
\* verbatim whenever one is present, whether or not a previous transaction is recorded;
\* otherwise it fails with MissingNonWitnessUtxo when the input has no non_witness_utxo,
\* fails with InvalidNonWitnessUtxo when the previous-output index is not an output of
\* that transaction, and otherwise uses the script-pubkey of that output.
C11_LegacyScriptCodeResolution ==
    LegacyInRange =>
        LET input == before.inputs[call.input_index.val + 1]
            vout == before.unsigned_tx.input[call.input_index.val + 1].previous_output.vout
        IN  /\ input.redeem_script.some =>
                   (ret.tag = "Ok" /\ ret.val[1].script_code = input.redeem_script.val)
            /\ (~input.redeem_script.some /\ ~input.non_witness_utxo.some) =>
                   ret = Err("MissingNonWitnessUtxo")
            /\ (/\ ~input.redeem_script.some
                /\ input.non_witness_utxo.some
                /\ vout + 1 \notin DOMAIN input.non_witness_utxo.val.output) =>
                   ret = Err("InvalidNonWitnessUtxo")
            /\ (/\ ~input.redeem_script.some
                /\ input.non_witness_utxo.some
                /\ vout + 1 \in DOMAIN input.non_witness_utxo.val.output) =>
                   (/\ ret.tag = "Ok"
                    /\ ret.val[1].script_code =
                           input.non_witness_utxo.val.output[vout + 1].script_pubkey)
            /\ psbt = before

\* C11 witness: a redeem script is used verbatim on an input that records no previous
\* transaction
C11_Witness ==
    /\ LegacyInRange
    /\ before.inputs[call.input_index.val + 1].redeem_script.some
    /\ ~before.inputs[call.input_index.val + 1].non_witness_utxo.some
    /\ ret.tag = "Ok"
    /\ ret.val[1].script_code = before.inputs[call.input_index.val + 1].redeem_script.val

\* the last call was sign(psbt, Some(i)) of the extended private key with i an input
XPrvSignedInRange ==
    /\ call.op = "DescriptorXKey::sign"
    /\ call.input_index.some
    /\ call.input_index.val < Len(before.inputs)

\* a key source names the derivation root of the extended private key: its fingerprint,
\* and its derivation path followed by the one step of the wildcard
NamesRootOf(xprv, keysource) ==
    /\ keysource.fingerprint = xkey_fingerprint(xprv.xkey)
    /\ Len(keysource.path) = Len(xprv.derivation_path) + 1
    /\ \A n \in 1..Len(xprv.derivation_path) : keysource.path[n] = xprv.derivation_path[n]

\* the public keys of the records of an input that name the root of the key
RecordsOfRoot(xprv, input) ==
    {pk \in DOMAIN input.hd_keypaths : NamesRootOf(xprv, input.hd_keypaths[pk])}

\* C12: sign of the extended private key on an in-range input none of whose hd_keypaths
\* records matches the signer's derivation root returns Ok and leaves the psbt unchanged:
\* no error is reported for an input the signer does not apply to.
C12_XPrvNoMatchIsOk ==
    (/\ XPrvSignedInRange
     /\ RecordsOfRoot(TheXPrv, before.inputs[call.input_index.val + 1]) = {})
        => (ret = Ok(<< >>) /\ psbt = before)

\* C12 witness: an input whose records are of another root and of another path only
C12_Witness ==
    /\ XPrvSignedInRange
    /\ before.inputs[call.input_index.val + 1].hd_keypaths # NoMap
    /\ RecordsOfRoot(TheXPrv, before.inputs[call.input_index.val + 1]) = {}
    /\ ret = Ok(<< >>)
    /\ psbt = before

\* the record the signer finds: the one of its root with the least public key, the
\* records being kept in the order of their public keys
FoundRecord(xprv, input) ==
    CHOOSE pk \in RecordsOfRoot(xprv, input) : \A q \in RecordsOfRoot(xprv, input) : pk <= q

\* C13: when the extended private key finds a matching record on the input, it derives
\* the child key along the recorded path; if the derived public key differs from the
\* public key of that record, sign fails with InvalidKey and the psbt is unchanged; if
\* it is equal, the outcome and the psbt are exactly those of sign of the single private
\* key that was derived, on that input.
C13_XPrvDerivesAndDelegates ==
    (/\ XPrvSignedInRange
     /\ RecordsOfRoot(TheXPrv, before.inputs[call.input_index.val + 1]) # {})
        => LET input == before.inputs[call.input_index.val + 1]
               pk == FoundRecord(TheXPrv, input)
               child == derive_priv(TheXPrv.xkey, input.hd_keypaths[pk].path)
           IN  IF public_key(child) # pk
               THEN ret = Err("InvalidKey") /\ psbt = before
               ELSE [psbt |-> psbt, result |-> ret] =
                        PrivateKey_sign(child, before, call.input_index)

\* C13 witness: the record carries the public key of the derived child, and the input
\* gains the partial signature of that child
C13_Witness ==
    /\ XPrvSignedInRange
    /\ RecordsOfRoot(TheXPrv, before.inputs[call.input_index.val + 1]) = {public_key(ChildKey)}
    /\ ret = Ok(<< >>)
    /\ public_key(ChildKey) \notin DOMAIN before.inputs[call.input_index.val + 1].partial_sigs
    /\ public_key(ChildKey) \in DOMAIN psbt.inputs[call.input_index.val + 1].partial_sigs
    /\ psbt = PrivateKey_sign(ChildKey, before, call.input_index).psbt

\* the last call was sign(psbt, Some(i)) of a single private key on an input that had
\* no partial signature of its public key
SignedAfresh ==
    /\ SignedInRange
    /\ public_key(call.key) \notin DOMAIN before.inputs[call.input_index.val + 1].partial_sigs

\* what the strategy named by the presence of a witness_utxo computes on the input
SelectedSighash ==
    IF before.inputs[call.input_index.val + 1].witness_utxo.some
    THEN Segwitv0_sighash(before, call.input_index.val)
    ELSE Legacy_sighash(before, call.input_index.val)

\* C16: on an in-range input with no partial signature of its public key, the single
\* private key signs the segwit-v0 digest exactly when the input has a witness_utxo and
\* the legacy digest exactly when it has none, whatever the other fields hold, and it
\* does not turn to the other strategy when the selected one fails.
C16_StrategyByWitnessUtxo ==
    SignedAfresh =>
        LET i == call.input_index.val + 1
            pubkey == public_key(call.key)
        IN  /\ ret.tag = "Ok" =>
                   /\ pubkey \in DOMAIN psbt.inputs[i].partial_sigs
                   /\ psbt.inputs[i].partial_sigs[pubkey][1].msg.alg =
                          (IF before.inputs[i].witness_utxo.some THEN "bip143" ELSE "legacy")
                   /\ SelectedSighash.tag = "Ok"
                   /\ psbt.inputs[i].partial_sigs[pubkey][1].msg = SelectedSighash.val[1]
            /\ SelectedSighash.tag # "Ok" =>
                   (ret.tag # "Ok" /\ psbt.inputs[i].partial_sigs = before.inputs[i].partial_sigs)

\* C16 witness: the input has a witness_utxo whose strategy fails while the legacy
\* strategy would have produced a digest, and sign fails
C16_Witness ==
    /\ SignedAfresh
    /\ before.inputs[call.input_index.val + 1].witness_utxo.some
    /\ Segwitv0_sighash(before, call.input_index.val).tag = "Err"
    /\ Legacy_sighash(before, call.input_index.val).tag = "Ok"
    /\ ret.tag = "Err"

\* C17: whenever the strategy selected by the single private key fails, with
\* MissingNonWitnessUtxo, InvalidNonWitnessUtxo or MissingWitnessScript, sign returns
\* exactly that error and the psbt is the one before the call: a failing sign records no
\* partial signature on any input.
C17_SighashErrorPropagates ==
    (SignedAfresh /\ SelectedSighash.tag # "Ok") =>
        /\ SelectedSighash.tag = "Err"
        /\ SelectedSighash.err \in
               {"MissingNonWitnessUtxo", "InvalidNonWitnessUtxo", "MissingWitnessScript"}
        /\ ret = SelectedSighash
        /\ psbt = before

\* C17 witness: the legacy strategy fails on a previous-output index that the recorded
\* previous transaction does not have
C17_Witness ==
    /\ SignedAfresh
    /\ ~before.inputs[call.input_index.val + 1].witness_utxo.some
    /\ before.inputs[call.input_index.val + 1].non_witness_utxo.some
    /\ ret = Err("InvalidNonWitnessUtxo")
    /\ psbt = before

\* the last call was a successful sign(psbt, Some(i)) of a built-in signer
BuiltInSigned ==
    /\ call.op \in {"PrivateKey::sign", "DescriptorXKey::sign"}
    /\ call.input_index.some
    /\ ret.tag = "Ok"

\* the public keys the signer of the last call may sign input i under: its own for a
\* single private key, the ones derived along the recorded paths for the extended key
OwnPublicKeys(input) ==
    IF call.op = "PrivateKey::sign" THEN {public_key(call.key)}
    ELSE {public_key(derive_priv(TheXPrv.xkey, input.hd_keypaths[pk].path)) :
              pk \in DOMAIN input.hd_keypaths}

\* C18: a successful sign(psbt, Some(i)) of a built-in signer changes nothing but the
\* partial_sigs of input i, to which it adds at most one entry, under the signer's own
\* or derived public key; the partial signatures input i had, every other field of
\* input i, every other input and the unsigned transaction stay as they were.
C18_SignFrame ==
    BuiltInSigned =>
        LET i == call.input_index.val + 1
            old == before.inputs[i].partial_sigs
            now == psbt.inputs[i].partial_sigs
        IN  /\ psbt.unsigned_tx = before.unsigned_tx
            /\ Len(psbt.inputs) = Len(before.inputs)
            /\ i \in 1..Len(before.inputs)
            /\ \A j \in 1..Len(before.inputs) : j # i => psbt.inputs[j] = before.inputs[j]
            /\ [psbt.inputs[i] EXCEPT !.partial_sigs = old] = before.inputs[i]
            /\ DOMAIN old \subseteq DOMAIN now
            /\ \A k \in DOMAIN old : now[k] = old[k]
            /\ Cardinality(DOMAIN now \ DOMAIN old) <= 1
            /\ (DOMAIN now \ DOMAIN old) \subseteq OwnPublicKeys(before.inputs[i])

\* C18 witness: a sign that adds its entry to an input that carried the partial
\* signature of another key, in a transaction whose other input is signed as well
C18_Witness ==
    /\ BuiltInSigned
    /\ Len(before.inputs) = 2
    /\ \A j \in 1..2 : before.inputs[j].partial_sigs # NoMap
    /\ Cardinality(DOMAIN psbt.inputs[call.input_index.val + 1].partial_sigs) = 2
    /\ Cardinality(DOMAIN before.inputs[call.input_index.val + 1].partial_sigs) = 1

(***************************************************************************)
(* Claims about the signing pass (SpecPass)                                *)
(***************************************************************************)
\* the registration of a signer of the pass, each being registered once
RegistrationOf(signer) == CHOOSE e \in registered : e.signer = signer

\* the partial signatures a transaction carries, each with its input and public key
PartialSigsOf(p) ==
    UNION { {<<j, pk, p.inputs[j].partial_sigs[pk]>> : pk \in DOMAIN p.inputs[j].partial_sigs} :
            j \in 1..Len(p.inputs) }

\* the partial signatures the k-th invocation of the pass wrote
WrittenBy(k) == PartialSigsOf(pass.log[k].left) \ PartialSigsOf(pass.log[k].saw)

\* the k-th invocation is the first, or the last, its signer gets in a pass
FirstOfSigner(k) ==
    pass.log[k].input_index = (IF sign_whole_tx(pass.log[k].signer) THEN None ELSE Some(0))
LastOfSigner(k) ==
    \/ sign_whole_tx(pass.log[k].signer)
    \/ pass.log[k].input_index = Some(Len(psbt.inputs) - 1)

\* C14: in a signing pass over a registry the signers are invoked in the order of
\* signers(), ascending ordering and then identity, a signer of single inputs once per
\* input index in ascending order; hence whenever a signer of a higher ordering is
\* invoked, every partial signature written earlier in the pass by signers of lower
\* orderings is in the transaction it sees.
C14_PassInSignersOrder ==
    pass.status # "none" =>
        LET log == pass.log
            place(k) == Place(RegistrationOf(log[k].signer))
            ordering(k) == RegistrationOf(log[k].signer).ordering
        IN  /\ Len(log) > 0 => (place(1) = 1 /\ FirstOfSigner(1))
            /\ \A k \in 1..Len(log) : log[k].signer = signers(container)[place(k)]
            /\ \A k \in 1..(Len(log) - 1) :
                   IF LastOfSigner(k)
                   THEN place(k + 1) = place(k) + 1 /\ FirstOfSigner(k + 1)
                   ELSE /\ log[k + 1].signer = log[k].signer
                        /\ log[k + 1].input_index = Some(log[k].input_index.val + 1)
            /\ pass.status = "done" =>
                   \/ registered = {} /\ log = << >>
                   \/ /\ Len(log) > 0
                      /\ place(Len(log)) = Cardinality(registered)
                      /\ LastOfSigner(Len(log))
            /\ \A m, n \in 1..Len(log) :
                   (m < n /\ ordering(m) < ordering(n)) =>
                       WrittenBy(m) \subseteq PartialSigsOf(log[n].saw)

\* C14 witness: a pass that ran to its end, in which a signer of a higher ordering wrote
\* a partial signature into a transaction that held one written by a signer of a lower
\* ordering
C14_Witness ==
    /\ pass.status = "done"
    /\ \E m, n \in 1..Len(pass.log) :
           /\ m < n
           /\ RegistrationOf(pass.log[m].signer).ordering
                  < RegistrationOf(pass.log[n].signer).ordering
           /\ WrittenBy(m) # {}
           /\ WrittenBy(n) # {}
           /\ WrittenBy(m) \subseteq PartialSigsOf(pass.log[n].saw)

====
